---- MODULE Spec2Model ----
(***************************************************************************)
(* Model of src/app.py (BuyHatke scraper): the bracket-balancing scanner   *)
(* extract_js_array, the anchor locator extract_array_for_key, the         *)
(* repeated "dealsData" scan of scrape_product_offers, and the helpers     *)
(* normalize_slug, clean_price_to_int, domain_to_merchant and the          *)
(* cheapest-offer selection of main.                                       *)
(*                                                                         *)
(* A Python str is a sequence of one-character strings.  Python indexes    *)
(* from 0, TLA+ sequences from 1: At and Slice do the translation so that  *)
(* every index of the model is the index of the code.                      *)
(***************************************************************************)
EXTENDS Integers, Sequences, FiniteSets, TLC

VARIABLES
    pc,                 \* position in the function under execution
    text,               \* extract_js_array / scrape_product_offers: the text scanned
    start_bracket_idx,  \* extract_js_array: parameter
    i,                  \* extract_js_array: scan index
    depth,              \* extract_js_array: bracket depth
    in_string,          \* extract_js_array: inside a string literal
    string_delim,       \* extract_js_array: the quote that opened it
    escaped,            \* extract_js_array: escape pending
    result,             \* the value returned or the exception raised
    ins,                \* insertion experiment: index at which an escaped quote is inserted
    text_ins,           \* insertion experiment: the text after the insertion
    result_ins,         \* insertion experiment: the extractor's result on text_ins
    html,               \* extract_array_for_key: parameter
    key,                \* extract_array_for_key: parameter
    pos,                \* extract_array_for_key: html.find(key)
    colon,              \* extract_array_for_key: html.find(":", pos)
    m,                  \* extract_array_for_key: m.start() of the bracket search, -1 for no match
    abs_idx,            \* extract_array_for_key / scrape_product_offers: index of the '['
    idx,                \* scrape_product_offers: the resume offset
    arr_text,           \* scrape_product_offers: the extracted literal
    offers,             \* scrape_product_offers / main: the offers
    cheapest,           \* main: index in offers of min()'s current best
    seen,               \* main: number of offers min() has looked at
    url,                \* domain_to_merchant: parameter
    fallback,           \* domain_to_merchant: parameter
    domain,             \* domain_to_merchant: local
    s,                  \* normalize_slug: parameter and local
    slug,               \* normalize_slug: what the first application returned
    round               \* normalize_slug: 1 in the first application, 2 in the second

scanVars == <<start_bracket_idx, i, depth, in_string, string_delim, escaped>>
insVars == <<ins, text_ins, result_ins>>
keyVars == <<html, key, pos, colon, m>>
loopVars == <<idx, arr_text>>
minVars == <<cheapest, seen>>
merchantVars == <<url, fallback, domain>>
slugVars == <<s, slug, round>>
vars == <<pc, result, text, abs_idx, offers, scanVars, insVars, keyVars, loopVars,
          minVars, merchantVars, slugVars>>

\* the variables of the functions a specification does not run stay at these values
IdleScan == /\ start_bracket_idx = 0 /\ i = 0 /\ depth = 0 /\ in_string = FALSE
            /\ string_delim = "" /\ escaped = FALSE
IdleIns == ins = 0 /\ text_ins = <<>> /\ result_ins = [kind |-> "none", value |-> <<>>]
IdleKey == html = <<>> /\ key = <<>> /\ pos = 0 /\ colon = 0 /\ m = 0
IdleLoop == idx = 0 /\ arr_text = <<>>
IdleMin == cheapest = 0 /\ seen = 0
IdleMerchant == url = [none |-> TRUE, str |-> <<>>] /\ fallback = <<>> /\ domain = <<>>
IdleSlug == s = [none |-> TRUE, str |-> <<>>] /\ slug = <<>> /\ round = 0

-----------------------------------------------------------------------------
(* Python str primitives *)

\* text[j]
At(t, j) == t[j + 1]

\* text[a:b] for 0 <= a, b  (b is clipped to len(text), as Python does)
Slice(t, a, b) ==
    LET hi == IF b > Len(t) THEN Len(t) ELSE b
    IN  IF a >= hi THEN <<>> ELSE SubSeq(t, a + 1, hi)

\* all str values of length lo..hi over an alphabet
Strs(alphabet, lo, hi) == UNION {[1..j -> alphabet] : j \in lo..hi}

\* the element of a one-element set: binds a value once it is computed
Only(S) == CHOOSE x \in S : TRUE

\* a returned value / a raised exception, in one shape
Return(v) == [kind |-> "return", value |-> v]
Raise(msg) == [kind |-> msg, value |-> <<>>]
NoResult == [kind |-> "none", value |-> <<>>]

InvalidStart == "ValueError: extract_js_array must start at '['"
Unterminated == "ValueError: Unterminated JS array"

-----------------------------------------------------------------------------
(* extract_js_array, src/app.py:51-83 *)

\* bound: longest text scanned by the extractor specification
MaxLen == 6

ScanAlphabet == {"[", "]", "\"", "'", "\\", "x"}

\* line 53: the start check; the mutant omits it
StartCheckOmitted(t, from) == TRUE
StartsAtBracket(t, from) == At(t, from) = "["

\* lines 56-60: the scanner's state on entry
ScanInit == [depth |-> 0, in_string |-> FALSE, string_delim |-> "",
             escaped |-> FALSE, ret |-> FALSE]

\* mutant of ScanChar: returns at the first ']' outside a string, whatever the depth
ScanCharNoNesting(st, ch) ==
    IF st.in_string
    THEN IF st.escaped THEN [st EXCEPT !.escaped = FALSE]
         ELSE IF ch = "\\" THEN [st EXCEPT !.escaped = TRUE]
         ELSE IF ch = st.string_delim THEN [st EXCEPT !.in_string = FALSE]
         ELSE st
    ELSE IF ch \in {"'", "\""} THEN [st EXCEPT !.in_string = TRUE, !.string_delim = ch]
         ELSE IF ch = "[" THEN [st EXCEPT !.depth = @ + 1]
         ELSE IF ch = "]" THEN [st EXCEPT !.depth = @ - 1, !.ret = TRUE]
         ELSE st

\* mutant of ScanChar: a backslash inside a string sets no escape
ScanCharNoEscape(st, ch) ==
    IF st.in_string
    THEN IF st.escaped THEN [st EXCEPT !.escaped = FALSE]
         ELSE IF ch = st.string_delim THEN [st EXCEPT !.in_string = FALSE]
         ELSE st
    ELSE IF ch \in {"'", "\""} THEN [st EXCEPT !.in_string = TRUE, !.string_delim = ch]
         ELSE IF ch = "[" THEN [st EXCEPT !.depth = @ + 1]
         ELSE IF ch = "]" THEN [st EXCEPT !.depth = @ - 1, !.ret = (st.depth - 1 = 0)]
         ELSE st

\* lines 63-80: one iteration of the while loop on character ch;
\* ret says that line 80 returns
ScanChar(st, ch) ==
    IF st.in_string
    THEN IF st.escaped THEN [st EXCEPT !.escaped = FALSE]
         ELSE IF ch = "\\" THEN [st EXCEPT !.escaped = TRUE]
         ELSE IF ch = st.string_delim THEN [st EXCEPT !.in_string = FALSE]
         ELSE st
    ELSE IF ch \in {"'", "\""} THEN [st EXCEPT !.in_string = TRUE, !.string_delim = ch]
         ELSE IF ch = "[" THEN [st EXCEPT !.depth = @ + 1]
         ELSE IF ch = "]" THEN [st EXCEPT !.depth = @ - 1, !.ret = (st.depth - 1 = 0)]
         ELSE st

\* mutant of EndOfText: hands back what was scanned so far
EndOfTextPartial(t, from) == Return(Slice(t, from, Len(t)))
\* line 83: the loop ran off the end of the text
EndOfText(t, from) == Raise(Unterminated)

\* the scanner's state before it reads text[j], having started at from
\* (lines 56-81 run on text[from .. j-1]); ret stays set once line 80 returned
RECURSIVE StateBefore(_, _, _)
StateBefore(t, from, j) ==
    IF j <= from THEN ScanInit
    ELSE Only({IF st.ret THEN st ELSE ScanChar(st, At(t, j - 1)) :
                  st \in {StateBefore(t, from, j - 1)}})

\* lines 62-83 from index j in state st
RECURSIVE ScanFrom(_, _, _, _)
ScanFrom(t, from, j, st) ==
    IF j >= Len(t) THEN EndOfText(t, from)
    ELSE Only({IF nx.ret THEN Return(Slice(t, from, j + 1))
                         ELSE ScanFrom(t, from, j + 1, nx) :
                  nx \in {ScanChar(st, At(t, j))}})

\* the whole function, for its callers
extract_js_array(t, from) ==
    IF ~StartsAtBracket(t, from) THEN Raise(InvalidStart)
    ELSE ScanFrom(t, from, from, ScanInit)

(* the same function as a state machine, one loop iteration per step *)

\* what the extractor's state machine leaves alone
notScan == <<abs_idx, offers, insVars, keyVars, loopVars, minVars, merchantVars, slugVars>>

ExtractInit ==
    /\ text \in Strs(ScanAlphabet, 1, MaxLen)
    /\ start_bracket_idx \in 0..(Len(text) - 1)
    /\ pc = "entry"
    /\ i = 0 /\ depth = 0 /\ in_string = FALSE /\ string_delim = "" /\ escaped = FALSE
    /\ result = NoResult
    /\ abs_idx = 0 /\ offers = <<>>
    /\ IdleIns /\ IdleKey /\ IdleLoop /\ IdleMin /\ IdleMerchant /\ IdleSlug

\* lines 53-54
RaiseInvalidStart ==
    /\ pc = "entry"
    /\ ~StartsAtBracket(text, start_bracket_idx)
    /\ pc' = "raised"
    /\ result' = Raise(InvalidStart)
    /\ UNCHANGED <<text, scanVars, notScan>>

\* lines 56-60
EnterScan ==
    /\ pc = "entry"
    /\ StartsAtBracket(text, start_bracket_idx)
    /\ pc' = "loop"
    /\ i' = start_bracket_idx
    /\ depth' = ScanInit.depth
    /\ in_string' = ScanInit.in_string
    /\ string_delim' = ScanInit.string_delim
    /\ escaped' = ScanInit.escaped
    /\ UNCHANGED <<text, start_bracket_idx, result, notScan>>

CurState == [depth |-> depth, in_string |-> in_string, string_delim |-> string_delim,
             escaped |-> escaped, ret |-> FALSE]

\* lines 62-81: one iteration that does not return
LoopStep ==
    /\ pc = "loop"
    /\ i < Len(text)
    /\ LET nx == ScanChar(CurState, At(text, i))
       IN  /\ ~nx.ret
           /\ depth' = nx.depth
           /\ in_string' = nx.in_string
           /\ string_delim' = nx.string_delim
           /\ escaped' = nx.escaped
    /\ i' = i + 1
    /\ UNCHANGED <<pc, text, start_bracket_idx, result, notScan>>

\* lines 77-80: the iteration that returns
LoopReturn ==
    /\ pc = "loop"
    /\ i < Len(text)
    /\ LET nx == ScanChar(CurState, At(text, i))
       IN  /\ nx.ret
           /\ depth' = nx.depth
           /\ in_string' = nx.in_string
           /\ string_delim' = nx.string_delim
           /\ escaped' = nx.escaped
    /\ pc' = "returned"
    /\ result' = Return(Slice(text, start_bracket_idx, i + 1))
    /\ UNCHANGED <<text, start_bracket_idx, i, notScan>>

\* line 83
LoopExhausted ==
    /\ pc = "loop"
    /\ i >= Len(text)
    /\ pc' = "raised"
    /\ result' = EndOfText(text, start_bracket_idx)
    /\ UNCHANGED <<text, scanVars, notScan>>

ExtractNext ==
    \/ RaiseInvalidStart
    \/ EnterScan
    \/ LoopStep
    \/ LoopReturn
    \/ LoopExhausted

SpecExtract == ExtractInit /\ [][ExtractNext]_vars

ExtractDone == pc \in {"returned", "raised"}


\* bracket balance of text[a..b] (both inclusive): '[' counts +1, ']' counts -1
RECURSIVE Bal(_, _, _)
Bal(t, a, b) ==
    IF b < a THEN 0
    ELSE Bal(t, a, b - 1)
         + (IF At(t, b) = "[" THEN 1 ELSE IF At(t, b) = "]" THEN -1 ELSE 0)

NoQuotes(t) == \A p \in 1..Len(t) : t[p] \notin {"'", "\""}

\* the indexes at which the brackets opened at a are balanced again
Closes(t, a) == {e \in a..(Len(t) - 1) : Bal(t, a, e) = 0}

SetMin(S) == CHOOSE x \in S : \A y \in S : x <= y

\* C1: started at a '[', the extractor either returns the span from the start index
\* to the ']' at which the depth is back at zero, or raises "Unterminated"; when the
\* scan reaches end-of-text (depth still nonzero, possibly inside an open string)
\* nothing is returned.
C1_BalancedOrUnterminated ==
    (ExtractDone /\ At(text, start_bracket_idx) = "[") =>
        \/ /\ result.kind = "return"
           /\ i < Len(text)
           /\ At(text, i) = "]"
           /\ depth = 0
           /\ result.value = Slice(text, start_bracket_idx, i + 1)
           /\ Head(result.value) = "["
        \/ /\ result = Raise(Unterminated)
           /\ i = Len(text)
           /\ depth > 0

\* the text ended inside an open string literal, and the extractor raised
C1_Witness ==
    /\ pc = "raised"
    /\ result.kind = Unterminated
    /\ in_string
    /\ i = Len(text)

\* C3: on a text without quotes whose brackets from the start index are balanced,
\* the extractor returns the shortest span whose balance is zero at its last
\* character; the balance is at least 1 at every earlier position of the span.
C3_MinimalBalancedSpan ==
    (/\ ExtractDone
     /\ NoQuotes(text)
     /\ At(text, start_bracket_idx) = "["
     /\ Closes(text, start_bracket_idx) # {}) =>
        LET e == SetMin(Closes(text, start_bracket_idx))
        IN  /\ result = Return(Slice(text, start_bracket_idx, e + 1))
            /\ i = e
            /\ \A k \in start_bracket_idx..(e - 1) : Bal(text, start_bracket_idx, k) >= 1

\* a nested literal was returned from the middle of a longer text
C3_Witness ==
    /\ pc = "returned"
    /\ NoQuotes(text)
    /\ start_bracket_idx > 0
    /\ i < Len(text) - 1
    /\ \E k \in start_bracket_idx..i : Bal(text, start_bracket_idx, k) >= 2

\* C7: a start index that is not at '[' makes the extractor raise the
\* "must start at '['" error and return nothing; whatever is returned begins at the
\* start index, which holds '['.
C7_InvalidStart ==
    ExtractDone =>
        /\ At(text, start_bracket_idx) # "[" => result = Raise(InvalidStart)
        /\ result.kind = "return" =>
              /\ At(text, start_bracket_idx) = "["
              /\ Len(result.value) > 0
              /\ result.value = Slice(text, start_bracket_idx,
                                      start_bracket_idx + Len(result.value))

\* the extractor was called at a ']' in the middle of a text and raised
C7_Witness ==
    /\ pc = "raised"
    /\ result.kind = InvalidStart
    /\ start_bracket_idx > 0
    /\ At(text, start_bracket_idx) = "]"

-----------------------------------------------------------------------------
(* Inserting a backslash-escaped quote into a string of an array literal *)

\* bound: longest text of the insertion specification
MaxInsLen == 7

InsAlphabet == {"[", "]", "\"", "'", "\\"}

\* t with the characters piece put in front of t[at]
Insert(t, at, piece) == Slice(t, 0, at) \o piece \o Slice(t, at, Len(t))

notIns == <<abs_idx, offers, i, depth, in_string, string_delim, escaped, keyVars,
            loopVars, minVars, merchantVars, slugVars>>

InsertInit ==
    /\ text \in Strs(InsAlphabet, 1, MaxInsLen)
    /\ start_bracket_idx \in 0..(Len(text) - 1)
    /\ At(text, start_bracket_idx) = "["
    /\ ins \in (start_bracket_idx + 1)..(Len(text) - 1)
    /\ pc = "entry"
    /\ result = NoResult
    /\ text_ins = <<>> /\ result_ins = NoResult
    /\ i = 0 /\ depth = 0 /\ in_string = FALSE /\ string_delim = "" /\ escaped = FALSE
    /\ abs_idx = 0 /\ offers = <<>>
    /\ IdleKey /\ IdleLoop /\ IdleMin /\ IdleMerchant /\ IdleSlug

\* the extractor on the text as it is
ExtractOriginal ==
    /\ pc = "entry"
    /\ result' = extract_js_array(text, start_bracket_idx)
    /\ pc' = "extracted"
    /\ UNCHANGED <<text, start_bracket_idx, insVars, notIns>>

\* text[ins] lies in the extracted literal and the scanner is inside a string when
\* it reads it
InsideString ==
    /\ result.kind = "return"
    /\ ins < start_bracket_idx + Len(result.value)
    /\ StateBefore(text, start_bracket_idx, ins).in_string

\* backslash + the string's own delimiter go in front of text[ins]
InsertEscapedQuote ==
    /\ pc = "extracted"
    /\ InsideString
    /\ text_ins' = Insert(text, ins,
                          <<"\\", StateBefore(text, start_bracket_idx, ins).string_delim>>)
    /\ pc' = "inserted"
    /\ UNCHANGED <<text, start_bracket_idx, result, ins, result_ins, notIns>>

\* the extractor on the text with the insertion
ExtractModified ==
    /\ pc = "inserted"
    /\ result_ins' = extract_js_array(text_ins, start_bracket_idx)
    /\ pc' = "compared"
    /\ UNCHANGED <<text, start_bracket_idx, result, ins, text_ins, notIns>>

InsertNext ==
    \/ ExtractOriginal
    \/ InsertEscapedQuote
    \/ ExtractModified

SpecInsert == InsertInit /\ [][InsertNext]_vars

\* the span extracted after the insertion is the original span with the two
\* inserted characters in it: same start, same closing bracket
SameSpan ==
    /\ result_ins.kind = "return"
    /\ result_ins.value = Insert(result.value, ins - start_bracket_idx,
                                 <<"\\", StateBefore(text, start_bracket_idx, ins).string_delim>>)

\* a bracket read inside a string leaves the depth alone
BracketInStringKeepsDepth ==
    At(text, ins) \in {"[", "]"} =>
        StateBefore(text, start_bracket_idx, ins + 1).depth
            = StateBefore(text, start_bracket_idx, ins).depth

\* C2 as stated: an escaped quote inserted anywhere inside a string value leaves the
\* extracted span's boundaries as they were.
C2_AsStated ==
    pc = "compared" => (SameSpan /\ BracketInStringKeepsDepth)

\* C2 amended: brackets inside a string never change the depth, and an escaped quote
\* inserted inside a string value at any place that is not directly behind an
\* escaping backslash leaves the extracted span's boundaries as they were.
C2_Amended ==
    (pc = "compared" /\ ~StateBefore(text, start_bracket_idx, ins).escaped) =>
        (SameSpan /\ BracketInStringKeepsDepth)

\* the escaped quote went in front of a bracket that stands inside a string
C2_Witness ==
    /\ pc = "compared"
    /\ ~StateBefore(text, start_bracket_idx, ins).escaped
    /\ At(text, ins) = "]"
    /\ result_ins.kind = "return"

-----------------------------------------------------------------------------
(* extract_array_for_key, src/app.py:86-97 *)

\* bound: longest generated html of the locator specification
MaxHtmlLen == 6

HtmlAlphabet == {"k", ":", "[", "]", "x"}
Keys == {<<"k">>, <<"k", ":">>, <<"x", "k">>}

\* the text and key of the spec's scenario 1, and the literal it expects
Scenario1Html == <<"f", "o", "o", ":", " ", "[", "{", "a", ":", "1", "}", ",", "{", "a", ":", "2", "}", "]", ";">>
Scenario1Key == <<"f", "o", "o">>
Scenario1Array == <<"[", "{", "a", ":", "1", "}", ",", "{", "a", ":", "2", "}", "]">>

\* str.find(sub, start): the lowest index >= start at which sub occurs, else -1
Find(t, sub, from) ==
    LET hits == {j \in from..(Len(t) - Len(sub)) : Slice(t, j, j + Len(sub)) = sub}
    IN  IF hits = {} THEN -1 ELSE SetMin(hits)

\* re.search(r"\[", t): m.start() of the first '[' of t, -1 for no match (None)
SearchBracket(t) == Find(t, <<"[">>, 0)

ReturnNone == [kind |-> "return None", value |-> <<>>]

\* mutant of AbsIdx: the offset of the slice is forgotten
AbsIdxNoOffset(c, mstart) == mstart
\* line 96
AbsIdx(c, mstart) == c + mstart

\* mutant of NoMatch: m.start() is called on None
NoMatchUnchecked == Raise("AttributeError: 'NoneType' object has no attribute 'start'")
\* lines 94-95
NoMatch == ReturnNone

notKey == <<text, offers, scanVars, insVars, loopVars, minVars, merchantVars, slugVars>>

KeyInit ==
    /\ \/ html \in Strs(HtmlAlphabet, 0, MaxHtmlLen) /\ key \in Keys
       \/ html = Scenario1Html /\ key = Scenario1Key
    /\ pc = "find_key"
    /\ pos = 0 /\ colon = 0 /\ m = 0 /\ abs_idx = 0
    /\ result = NoResult
    /\ text = <<>> /\ offers = <<>>
    /\ IdleScan /\ IdleIns /\ IdleLoop /\ IdleMin /\ IdleMerchant /\ IdleSlug

\* lines 87-89
FindKey ==
    /\ pc = "find_key"
    /\ pos' = Find(html, key, 0)
    /\ IF pos' = -1
       THEN pc' = "done" /\ result' = ReturnNone
       ELSE pc' = "find_colon" /\ UNCHANGED result
    /\ UNCHANGED <<html, key, colon, m, abs_idx, notKey>>

\* lines 90-92
FindColon ==
    /\ pc = "find_colon"
    /\ colon' = Find(html, <<":">>, pos)
    /\ IF colon' = -1
       THEN pc' = "done" /\ result' = ReturnNone
       ELSE pc' = "search" /\ UNCHANGED result
    /\ UNCHANGED <<html, key, pos, m, abs_idx, notKey>>

\* lines 93-96
SearchSlice ==
    /\ pc = "search"
    /\ m' = SearchBracket(Slice(html, colon, Len(html)))
    /\ IF m' = -1
       THEN pc' = "done" /\ result' = NoMatch /\ UNCHANGED abs_idx
       ELSE pc' = "extract" /\ abs_idx' = AbsIdx(colon, m') /\ UNCHANGED result
    /\ UNCHANGED <<html, key, pos, colon, notKey>>

\* line 97
CallExtract ==
    /\ pc = "extract"
    /\ result' = extract_js_array(html, abs_idx)
    /\ pc' = "done"
    /\ UNCHANGED <<html, key, pos, colon, m, abs_idx, notKey>>

KeyNext ==
    \/ FindKey
    \/ FindColon
    \/ SearchSlice
    \/ CallExtract

SpecKey == KeyInit /\ [][KeyNext]_vars

\* sub occurs in t at index j
OccursAt(t, sub, j) ==
    /\ j >= 0
    /\ j + Len(sub) <= Len(t)
    /\ \A d \in 1..Len(sub) : t[j + d] = sub[d]

KeyPlaces == {j \in 0..Len(html) : OccursAt(html, key, j)}
ColonsFrom(p) == {j \in p..(Len(html) - 1) : At(html, j) = ":"}
BracketsAfter(c) == {j \in (c + 1)..(Len(html) - 1) : At(html, j) = "["}

\* the key, a ':' from its first occurrence on, and a '[' after that ':' all exist
AnchorExists ==
    /\ KeyPlaces # {}
    /\ ColonsFrom(SetMin(KeyPlaces)) # {}
    /\ BracketsAfter(SetMin(ColonsFrom(SetMin(KeyPlaces)))) # {}

\* C4: with the key missing from the text, or no ':' from the key's first occurrence
\* on, or no '[' after that ':', the locator returns None and raises nothing.
C4_AbsentIsNone ==
    (pc = "done" /\ ~AnchorExists) => result = ReturnNone

\* the key and a ':' behind it are there, the '[' is not, and None came back
C4_Witness ==
    /\ pc = "done"
    /\ KeyPlaces # {}
    /\ ColonsFrom(SetMin(KeyPlaces)) # {}
    /\ ~AnchorExists
    /\ result = ReturnNone

\* C5: with the key, a ':' and a '[' in place, the locator returns what
\* extract_js_array returns at the first '[' after the first ':' from the first
\* occurrence of the key, whatever later occurrences of the key there are; scenario 1
\* yields [{a:1},{a:2}].
C5_FirstAnchorExtracted ==
    /\ (pc = "done" /\ AnchorExists) =>
          LET b == SetMin(BracketsAfter(SetMin(ColonsFrom(SetMin(KeyPlaces)))))
          IN  /\ abs_idx = b
              /\ result = extract_js_array(html, b)
    /\ (pc = "done" /\ html = Scenario1Html /\ key = Scenario1Key) =>
          result = Return(Scenario1Array)

\* the key occurs twice, and the array behind the first occurrence was returned
C5_Witness ==
    /\ pc = "done"
    /\ AnchorExists
    /\ Cardinality(KeyPlaces) >= 2
    /\ result.kind = "return"
    /\ colon > 0

-----------------------------------------------------------------------------
(* the "dealsData" scan of scrape_product_offers, src/app.py:167-208, on one script *)

\* bound: number of pieces a generated script text is made of
MaxChunks == 6
\* bound: most deals one decoded array holds
MaxDeals == 2

DealsData == <<"d", "e", "a", "l", "s", "D", "a", "t", "a">>

\* a script text is a concatenation of these pieces
Chunks == {DealsData, <<"[">>, <<"]">>, <<"\"">>, <<"x">>}

RECURSIVE Flatten(_)
Flatten(cs) == IF cs = <<>> THEN <<>> ELSE Head(cs) \o Flatten(Tail(cs))

\* mutant of SkipOccurrence: the offset is left where it was
SkipOccurrenceStuck(at) == at
\* lines 178, 185, 191: idx += 9
SkipOccurrence(at) == at + 9

\* line 208: idx = abs_idx + len(arr_text)
ResumeAfter(start, literal) == start + Len(literal)

notLoop == <<start_bracket_idx, i, depth, in_string, string_delim, escaped, insVars,
             html, key, pos, colon, minVars, merchantVars, slugVars, result>>

OffersInit ==
    /\ \E cs \in Strs(Chunks, 0, MaxChunks) : text = Flatten(cs)
    /\ pc = "script"
    /\ idx = 0 /\ m = 0 /\ abs_idx = 0 /\ arr_text = <<>>
    /\ offers = <<>>
    /\ result = NoResult
    /\ html = <<>> /\ key = <<>> /\ pos = 0 /\ colon = 0
    /\ IdleScan /\ IdleIns /\ IdleMin /\ IdleMerchant /\ IdleSlug

\* lines 168-171: a script without the key is passed over
EnterScript ==
    /\ pc = "script"
    /\ IF Find(text, DealsData, 0) = -1
       THEN pc' = "done" /\ UNCHANGED idx
       ELSE pc' = "find" /\ idx' = 0
    /\ UNCHANGED <<text, m, abs_idx, arr_text, offers, notLoop>>

\* lines 173-175
FindOccurrence ==
    /\ pc = "find"
    /\ idx' = Find(text, DealsData, idx)
    /\ pc' = IF idx' = -1 THEN "done" ELSE "search"
    /\ UNCHANGED <<text, m, abs_idx, arr_text, offers, notLoop>>

\* lines 176-180
SearchFromOccurrence ==
    /\ pc = "search"
    /\ m' = SearchBracket(Slice(text, idx, Len(text)))
    /\ IF m' = -1
       THEN pc' = "find" /\ idx' = SkipOccurrence(idx) /\ UNCHANGED abs_idx
       ELSE pc' = "extract" /\ abs_idx' = idx + m' /\ UNCHANGED idx
    /\ UNCHANGED <<text, arr_text, offers, notLoop>>

\* lines 182-186
TryExtract ==
    /\ pc = "extract"
    /\ LET r == extract_js_array(text, abs_idx)
       IN  IF r.kind = "return"
           THEN pc' = "decode" /\ arr_text' = r.value /\ UNCHANGED idx
           ELSE pc' = "find" /\ idx' = SkipOccurrence(idx) /\ UNCHANGED arr_text
    /\ UNCHANGED <<text, m, abs_idx, offers, notLoop>>

\* lines 188-192: demjson3.decode raises (the decoder is a library: the model
\* lets it fail or succeed on any literal)
DecodeFails ==
    /\ pc = "decode"
    /\ pc' = "find"
    /\ idx' = SkipOccurrence(idx)
    /\ UNCHANGED <<text, m, abs_idx, arr_text, offers, notLoop>>

\* lines 189, 194-208: the literal decodes to a list of deals, each appended as an
\* offer; array_start notes the literal an offer came from
DecodeAndProject ==
    /\ pc = "decode"
    /\ \E deals \in 0..MaxDeals :
          offers' = offers \o [d \in 1..deals |-> [array_start |-> abs_idx]]
    /\ idx' = ResumeAfter(abs_idx, arr_text)
    /\ pc' = "find"
    /\ UNCHANGED <<text, m, abs_idx, arr_text, notLoop>>

\* line 195: an item of the decoded list is no mapping, item.get raises and the
\* exception leaves the function
ProjectRaises ==
    /\ pc = "decode"
    /\ pc' = "raised"
    /\ UNCHANGED <<text, idx, m, abs_idx, arr_text, offers, notLoop>>

OffersNext ==
    \/ EnterScript
    \/ FindOccurrence
    \/ SearchFromOccurrence
    \/ TryExtract
    \/ DecodeFails
    \/ DecodeAndProject
    \/ ProjectRaises

\* the interpreter runs the loop on: a step that can be taken is taken
SpecOffers == OffersInit /\ [][OffersNext]_vars /\ WF_vars(OffersNext)

ArrayStarts == {offers[o].array_start : o \in 1..Len(offers)}

\* what one step of the scan does to the resume offset and to the offers
ScanStepAdvances ==
    /\ (pc = "find" /\ pc' = "search") => idx' >= idx
    /\ (pc \in {"search", "extract"} /\ pc' = "find") => idx' = idx + Len(DealsData)
    /\ (pc = "decode" /\ pc' = "find") =>
          /\ idx' > idx
          /\ idx' \in {idx + Len(DealsData), abs_idx + Len(arr_text)}
    /\ offers' # offers =>
          /\ idx' = abs_idx + Len(arr_text)
          /\ At(text, idx' - 1) = "]"
          /\ abs_idx \notin ArrayStarts

\* C10: the scan of a script text ends; every pass through the loop moves the resume
\* offset forward, by the key's length 9 when no '[' follows or extraction or decoding
\* fails, and to just behind the closing bracket of the array when the occurrence
\* yields offers; no array start yields offers in two passes.
C10_ScanTerminates ==
    /\ [][ScanStepAdvances]_vars
    /\ <>(pc \in {"done", "raised"})
    /\ Len(DealsData) = 9

\* the scan ended with offers from an array that lies behind a second occurrence of
\* the key: the first occurrence was passed over
C10_Witness ==
    /\ pc = "done"
    /\ offers # <<>>
    /\ \E a, b \in 0..Len(text) :
          /\ a < b
          /\ OccursAt(text, DealsData, a)
          /\ OccursAt(text, DealsData, b)
          /\ b < offers[1].array_start

-----------------------------------------------------------------------------
(* clean_price_to_int, src/app.py:109-113, and the selection of main, line 255 *)

\* bound: most offers in the sequence handed to min()
MaxOffers == 3

\* an optional str: None, or a str
None == [none |-> TRUE, str |-> <<>>]
Str(t) == [none |-> FALSE, str |-> t]

\* "Rs" stands for the one character U+20B9, the rupee sign
Price500 == Str(<<"Rs", "5", "0", "0">>)
Price300 == Str(<<"Rs", "3", "0", "0">>)
Price1234 == Str(<<"Rs", "1", ",", "2", "3", "4">>)
PriceBig == Str(<<"Rs", "1", ",", "0", "0", "0", ",", "0", "0", "0", ",", "0", "0", "0", ",", "0", "0", "0">>)
PriceNoDigits == Str(<<"Rs">>)
PricePlain == Str(<<"0", "3", "0", "0">>)
Prices == {None, Str(<<>>), PriceNoDigits, Price500, Price300, Price1234, PricePlain, PriceBig}

Digits == <<"0", "1", "2", "3", "4", "5", "6", "7", "8", "9">>
IsDigit(c) == \E d \in 1..10 : Digits[d] = c
DigitVal(c) == (CHOOSE d \in 1..10 : Digits[d] = c) - 1

\* int(digits): a Python int has no width, and 10**12 is beyond the checker's
\* integers, so an int is its decimal digits without leading zeros
RECURSIVE IntOf(_)
IntOf(ds) == IF Len(ds) > 1 /\ Head(ds) = "0" THEN IntOf(Tail(ds)) ELSE ds

\* a < b on such ints
RECURSIVE LexLess(_, _)
LexLess(a, b) ==
    IF a = <<>> THEN FALSE
    ELSE IF DigitVal(Head(a)) # DigitVal(Head(b)) THEN DigitVal(Head(a)) < DigitVal(Head(b))
    ELSE LexLess(Tail(a), Tail(b))
IntLess(a, b) == Len(a) < Len(b) \/ (Len(a) = Len(b) /\ LexLess(a, b))

\* lines 111, 113: 10**12
Sentinel == <<"1", "0", "0", "0", "0", "0", "0", "0", "0", "0", "0", "0", "0">>

\* lines 109-113
clean_price_to_int(price_str) ==
    IF price_str.none \/ price_str.str = <<>> THEN Sentinel
    ELSE LET digits == SelectSeq(price_str.str, IsDigit)
         IN  IF digits = <<>> THEN Sentinel ELSE IntOf(digits)

\* mutant of Replaces: a later offer with an equal key replaces the best
ReplacesOnTie(candidate, best) == ~IntLess(best, candidate)
\* line 255, min(): a later item replaces the best only with a smaller key
Replaces(candidate, best) == IntLess(candidate, best)

notMin == <<text, abs_idx, result, scanVars, insVars, keyVars, loopVars, merchantVars, slugVars>>

MinInit ==
    /\ offers \in UNION {[1..k -> [price : Prices]] : k \in 1..MaxOffers}
    /\ pc = "min"
    /\ cheapest = 0 /\ seen = 0
    /\ text = <<>> /\ abs_idx = 0 /\ result = NoResult
    /\ IdleScan /\ IdleIns /\ IdleKey /\ IdleLoop /\ IdleMerchant /\ IdleSlug

\* line 255: min() takes the first offer as its best (offers is not empty, line 247)
MinFirst ==
    /\ pc = "min"
    /\ seen = 0
    /\ cheapest' = 1
    /\ seen' = 1
    /\ UNCHANGED <<pc, offers, notMin>>

\* line 255: min() looks at the next offer
MinNext ==
    /\ pc = "min"
    /\ seen >= 1
    /\ seen < Len(offers)
    /\ cheapest' = IF Replaces(clean_price_to_int(offers[seen + 1].price),
                               clean_price_to_int(offers[cheapest].price))
                   THEN seen + 1 ELSE cheapest
    /\ seen' = seen + 1
    /\ UNCHANGED <<pc, offers, notMin>>

\* line 255: min() returns
MinReturn ==
    /\ pc = "min"
    /\ seen >= 1
    /\ seen = Len(offers)
    /\ pc' = "selected"
    /\ UNCHANGED <<offers, cheapest, seen, notMin>>

CheapestNext ==
    \/ MinFirst
    \/ MinNext
    \/ MinReturn

SpecCheapest == MinInit /\ [][CheapestNext]_vars

\* the sort key the claim describes: the digits of the price as a number, 10^12 for a
\* price that is absent or has no digit
Pow10(e) == [d \in 1..(e + 1) |-> IF d = 1 THEN "1" ELSE "0"]
DigitsOf(p) == IF p.none THEN <<>> ELSE SelectSeq(p.str, LAMBDA c : c \in {Digits[d] : d \in 1..10})
SortKey(p) == IF DigitsOf(p) = <<>> THEN Pow10(12) ELSE IntOf(DigitsOf(p))

\* C6: the offer selected has the least sort key of the sequence and is the first
\* offer with that key; (Rs500, absent, Rs300) selects the third offer, and Rs1,234
\* has the key 1234.
C6_CheapestIsFirstMinimum ==
    pc = "selected" =>
        /\ cheapest \in 1..Len(offers)
        /\ \A o \in 1..Len(offers) :
              /\ ~IntLess(SortKey(offers[o].price), SortKey(offers[cheapest].price))
              /\ SortKey(offers[o].price) = SortKey(offers[cheapest].price) => cheapest <= o
        /\ \A o \in 1..Len(offers) :
              clean_price_to_int(offers[o].price) = SortKey(offers[o].price)
        /\ offers = <<[price |-> Price500], [price |-> None], [price |-> Price300]>>
              => cheapest = 3
        /\ clean_price_to_int(Price1234) = <<"1", "2", "3", "4">>

\* an offer without a price came first, two offers tie for the least price behind
\* it, and the first of the two was selected
C6_Witness ==
    /\ pc = "selected"
    /\ Len(offers) = 3
    /\ offers[1].price = None
    /\ offers[2].price = Price300
    /\ offers[3].price = PricePlain
    /\ cheapest = 2

-----------------------------------------------------------------------------
(* str.lower, str.capitalize and friends *)

LowerLetters == <<"a", "b", "c", "d", "e", "f", "g", "h", "i", "j", "k", "l", "m", "n", "o", "p", "q", "r", "s", "t", "u", "v", "w", "x", "y", "z">>
UpperLetters == <<"A", "B", "C", "D", "E", "F", "G", "H", "I", "J", "K", "L", "M", "N", "O", "P", "Q", "R", "S", "T", "U", "V", "W", "X", "Y", "Z">>

Lower(c) == IF \E l \in 1..26 : UpperLetters[l] = c
            THEN LowerLetters[CHOOSE l \in 1..26 : UpperLetters[l] = c] ELSE c
Upper(c) == IF \E l \in 1..26 : LowerLetters[l] = c
            THEN UpperLetters[CHOOSE l \in 1..26 : LowerLetters[l] = c] ELSE c

\* t.lower()
LowerStr(t) == [p \in 1..Len(t) |-> Lower(t[p])]

\* t.capitalize()
Capitalize(t) == [p \in 1..Len(t) |-> IF p = 1 THEN Upper(t[p]) ELSE Lower(t[p])]

\* t.startswith(prefix)
StartsWith(t, prefix) == Len(t) >= Len(prefix) /\ SubSeq(t, 1, Len(prefix)) = prefix

-----------------------------------------------------------------------------
(* domain_to_merchant, src/app.py:116-121, with DOMAIN_MAP, lines 28-39 *)

\* bound: longest generated host name
MaxHostLen == 6

DOMAIN_MAP == {
    [host |-> <<"a", "m", "a", "z", "o", "n", ".", "i", "n">>,
     name |-> <<"A", "m", "a", "z", "o", "n">>],
    [host |-> <<"f", "l", "i", "p", "k", "a", "r", "t", ".", "c", "o", "m">>,
     name |-> <<"F", "l", "i", "p", "k", "a", "r", "t">>],
    [host |-> <<"c", "r", "o", "m", "a", ".", "c", "o", "m">>,
     name |-> <<"C", "r", "o", "m", "a">>],
    [host |-> <<"j", "i", "o", "m", "a", "r", "t", ".", "c", "o", "m">>,
     name |-> <<"J", "i", "o", "M", "a", "r", "t">>],
    [host |-> <<"r", "e", "l", "i", "a", "n", "c", "e", "d", "i", "g", "i", "t", "a", "l", ".", "i", "n">>,
     name |-> <<"R", "e", "l", "i", "a", "n", "c", "e", " ", "D", "i", "g", "i", "t", "a", "l">>],
    [host |-> <<"v", "i", "j", "a", "y", "s", "a", "l", "e", "s", ".", "c", "o", "m">>,
     name |-> <<"V", "i", "j", "a", "y", " ", "S", "a", "l", "e", "s">>],
    [host |-> <<"a", "p", "p", "l", "e", ".", "c", "o", "m">>,
     name |-> <<"A", "p", "p", "l", "e", " ", "S", "t", "o", "r", "e">>],
    [host |-> <<"b", "i", "g", "b", "a", "s", "k", "e", "t", ".", "c", "o", "m">>,
     name |-> <<"B", "i", "g", "B", "a", "s", "k", "e", "t">>],
    [host |-> <<"s", "h", "o", "p", "s", "y", ".", "i", "n">>,
     name |-> <<"S", "h", "o", "p", "s", "y">>],
    [host |-> <<"p", "a", "i", "i", "n", "t", "e", "r", "n", "a", "t", "i", "o", "n", "a", "l", ".", "i", "n">>,
     name |-> <<"P", "a", "i", " ", "I", "n", "t", "e", "r", "n", "a", "t", "i", "o", "n", "a", "l">>]}

\* DOMAIN_MAP.get(host, default)
DomainMapGet(host, default) ==
    IF \E e \in DOMAIN_MAP : e.host = host
    THEN (CHOOSE e \in DOMAIN_MAP : e.host = host).name
    ELSE default

Www == <<"w", "w", "w", ".">>
Https == <<"h", "t", "t", "p", "s", ":", "/", "/">>
Unknown == <<"U", "n", "k", "n", "o", "w", "n">>

SchemeChars == {LowerLetters[l] : l \in 1..26} \cup {UpperLetters[l] : l \in 1..26}
                  \cup {Digits[d] : d \in 1..10} \cup {"+", "-", "."}

\* urlparse(u).netloc: with a scheme "letters:" taken off the front, what stands
\* between a leading "//" and the next '/', '?' or '#'
Netloc(u) ==
    LET c == Find(u, <<":">>, 0)
        hasScheme == /\ c > 0
                     /\ Upper(At(u, 0)) # Lower(At(u, 0))
                     /\ \A p \in 1..c : u[p] \in SchemeChars
        rest == IF hasScheme THEN Slice(u, c + 1, Len(u)) ELSE u
        ends == {j \in 2..(Len(rest) - 1) : At(rest, j) \in {"/", "?", "#"}}
    IN  IF StartsWith(rest, <<"/", "/">>)
        THEN Slice(rest, 2, IF ends = {} THEN Len(rest) ELSE SetMin(ends))
        ELSE <<>>

\* line 120: domain.replace("www.", ""), every occurrence from left to right
RECURSIVE StripWww(_)
StripWww(t) ==
    IF t = <<>> THEN <<>>
    ELSE IF StartsWith(t, Www) THEN StripWww(Slice(t, Len(Www), Len(t)))
    ELSE <<Head(t)>> \o StripWww(Tail(t))

\* domain.split(".")[0]
FirstLabel(t) ==
    LET dots == {j \in 0..(Len(t) - 1) : At(t, j) = "."}
    IN  IF dots = {} THEN t ELSE Slice(t, 0, SetMin(dots))

HostAlphabet == {"w", ".", "a", "W"}
ScenarioUrls == {
    <<"h", "t", "t", "p", "s", ":", "/", "/", "w", "w", "w", ".", "f", "l", "i", "p", "k", "a", "r", "t", ".", "c", "o", "m", "/", "p", "/", "x", "y", "z">>,
    <<"h", "t", "t", "p", "s", ":", "/", "/", "u", "n", "k", "n", "o", "w", "n", "s", "t", "o", "r", "e", ".", "e", "x", "a", "m", "p", "l", "e", ".", "c", "o", "m", "/", "x">>,
    <<"h", "t", "t", "p", "s", ":", "/", "/", "W", "W", "W", ".", "A", "m", "a", "z", "o", "n", ".", "I", "N", "/", "d", "p", "?", "x">>,
    <<"h", "t", "t", "p", "s", ":", "/", "/", "f", "l", "i", "p", "w", "w", "w", ".", "k", "a", "r", "t", ".", "c", "o", "m", "/", "p">>,
    <<"f", "l", "i", "p", "k", "a", "r", "t", ".", "c", "o", "m", "/", "p">>}
Fallbacks == {Unknown, <<"N", "A">>}

notMerchant == <<text, abs_idx, offers, scanVars, insVars, keyVars, loopVars, minVars, slugVars>>

MerchantInit ==
    /\ \/ url \in {None, Str(<<>>)}
       \/ \E h \in Strs(HostAlphabet, 1, MaxHostLen) : url = Str(Https \o h \o <<"/", "x">>)
       \/ \E u \in ScenarioUrls : url = Str(u)
    /\ fallback \in Fallbacks
    /\ pc = "entry"
    /\ domain = <<>>
    /\ result = NoResult
    /\ text = <<>> /\ abs_idx = 0 /\ offers = <<>>
    /\ IdleScan /\ IdleIns /\ IdleKey /\ IdleLoop /\ IdleMin /\ IdleSlug

\* lines 117-118
ReturnFallback ==
    /\ pc = "entry"
    /\ url.none \/ url.str = <<>>
    /\ result' = Return(fallback)
    /\ pc' = "done"
    /\ UNCHANGED <<url, fallback, domain, notMerchant>>

\* line 119
ParseHost ==
    /\ pc = "entry"
    /\ ~(url.none \/ url.str = <<>>)
    /\ domain' = LowerStr(Netloc(url.str))
    /\ pc' = "parsed"
    /\ UNCHANGED <<url, fallback, result, notMerchant>>

\* line 120
ReplaceWww ==
    /\ pc = "parsed"
    /\ domain' = StripWww(domain)
    /\ pc' = "stripped"
    /\ UNCHANGED <<url, fallback, result, notMerchant>>

\* line 121
LookUp ==
    /\ pc = "stripped"
    /\ result' = Return(DomainMapGet(domain, Capitalize(FirstLabel(domain))))
    /\ pc' = "done"
    /\ UNCHANGED <<url, fallback, domain, notMerchant>>

MerchantNext ==
    \/ ReturnFallback
    \/ ParseHost
    \/ ReplaceWww
    \/ LookUp

SpecMerchant == MerchantInit /\ [][MerchantNext]_vars

\* the host of the url, lowercased, without a leading "www."
ClaimedHost ==
    LET h == LowerStr(Netloc(url.str))
    IN  IF StartsWith(h, Www) THEN Slice(h, Len(Www), Len(h)) ELSE h

\* C8: an empty or missing url yields the fallback; otherwise the host is lowercased,
\* only a leading "www." is taken off, and the result is the table's name for the
\* host, or else the capitalized first label of the host.
C8_MerchantFromHost ==
    pc = "done" =>
        IF url.none \/ url.str = <<>>
        THEN result = Return(fallback)
        ELSE result = Return(DomainMapGet(ClaimedHost, Capitalize(FirstLabel(ClaimedHost))))

\* the parts of C8 the code keeps: the fallback, the two scenario urls, and every
\* host in which "www." occurs at the front or not at all
C8_HoldsWithoutInnerWww ==
    pc = "done" =>
        /\ (url.none \/ url.str = <<>>) => result = Return(fallback)
        /\ (~(url.none \/ url.str = <<>>) /\ StripWww(ClaimedHost) = ClaimedHost)
              => result = Return(DomainMapGet(ClaimedHost, Capitalize(FirstLabel(ClaimedHost))))

-----------------------------------------------------------------------------
(* normalize_slug, src/app.py:44-48, applied twice *)

\* bound: longest text handed to normalize_slug
MaxSlugLen == 4

SlugAlphabet == {"A", "a", "1", "-", " ", "_"}

\* [a-z0-9]
IsLowerAlnum(c) == (\E l \in 1..26 : LowerLetters[l] = c) \/ IsDigit(c)

\* t.lstrip(chars), t.rstrip(chars), t.strip(chars)
RECURSIVE LStrip(_, _)
LStrip(t, chars) == IF t # <<>> /\ Head(t) \in chars THEN LStrip(Tail(t), chars) ELSE t
RECURSIVE RStrip(_, _)
RStrip(t, chars) ==
    IF t # <<>> /\ t[Len(t)] \in chars THEN RStrip(SubSeq(t, 1, Len(t) - 1), chars) ELSE t
Strip(t, chars) == RStrip(LStrip(t, chars), chars)

Whitespace == {" "}

\* line 45: (s or "").strip().lower()
StripLower(o) == LowerStr(Strip(IF o.none THEN <<>> ELSE o.str, Whitespace))

\* line 46: re.sub(r"[^a-z0-9]+", "-", t): every maximal run of other characters
\* becomes one hyphen
RECURSIVE SubNonAlnum(_)
SubNonAlnum(t) ==
    IF t = <<>> THEN <<>>
    ELSE IF IsLowerAlnum(Head(t)) THEN <<Head(t)>> \o SubNonAlnum(Tail(t))
    ELSE IF Len(t) > 1 /\ ~IsLowerAlnum(t[2]) THEN SubNonAlnum(Tail(t))
    ELSE <<"-">> \o SubNonAlnum(Tail(t))

\* re.sub(r"-{2,}", "-", t): every run of two or more hyphens becomes one
RECURSIVE CollapseHyphens(_)
CollapseHyphens(t) ==
    IF t = <<>> THEN <<>>
    ELSE IF Len(t) > 1 /\ t[1] = "-" /\ t[2] = "-" THEN CollapseHyphens(Tail(t))
    ELSE <<Head(t)>> \o CollapseHyphens(Tail(t))

\* mutant of CollapseAndStrip: the hyphens at the ends stay
CollapseOnly(t) == CollapseHyphens(t)
\* line 47
CollapseAndStrip(t) == Strip(CollapseHyphens(t), {"-"})

notSlug == <<text, abs_idx, offers, result, scanVars, insVars, keyVars, loopVars,
             minVars, merchantVars>>

SlugInit ==
    /\ \/ s = None
       \/ \E t \in Strs(SlugAlphabet, 0, MaxSlugLen) : s = Str(t)
    /\ pc = "line45"
    /\ round = 1
    /\ slug = <<>>
    /\ text = <<>> /\ abs_idx = 0 /\ offers = <<>> /\ result = NoResult
    /\ IdleScan /\ IdleIns /\ IdleKey /\ IdleLoop /\ IdleMin /\ IdleMerchant

\* line 45
SlugStripLower ==
    /\ pc = "line45"
    /\ s' = Str(StripLower(s))
    /\ pc' = "line46"
    /\ UNCHANGED <<slug, round, notSlug>>

\* line 46
SlugSubNonAlnum ==
    /\ pc = "line46"
    /\ s' = Str(SubNonAlnum(s.str))
    /\ pc' = "line47"
    /\ UNCHANGED <<slug, round, notSlug>>

\* line 47
SlugCollapseAndStrip ==
    /\ pc = "line47"
    /\ s' = Str(CollapseAndStrip(s.str))
    /\ pc' = "returned"
    /\ UNCHANGED <<slug, round, notSlug>>

\* the slug returned is handed to normalize_slug again
SlugAgain ==
    /\ pc = "returned"
    /\ round = 1
    /\ slug' = s.str
    /\ round' = 2
    /\ pc' = "line45"
    /\ UNCHANGED <<s, notSlug>>

SlugNext ==
    \/ SlugStripLower
    \/ SlugSubNonAlnum
    \/ SlugCollapseAndStrip
    \/ SlugAgain

SpecSlug == SlugInit /\ [][SlugNext]_vars

\* lowercase alphanumeric runs joined by single hyphens, no hyphen at either end
IsSlug(t) ==
    /\ \A p \in 1..Len(t) : IsLowerAlnum(t[p]) \/ t[p] = "-"
    /\ \A p \in 1..(Len(t) - 1) : ~(t[p] = "-" /\ t[p + 1] = "-")
    /\ t # <<>> => (t[1] # "-" /\ t[Len(t)] # "-")

\* C9: what normalize_slug returns is a slug, and normalize_slug applied to it
\* returns it unchanged.
C9_SlugIdempotent ==
    pc = "returned" =>
        /\ IsSlug(s.str)
        /\ round = 2 => s.str = slug

\* a slug of two runs came back from the second application as it went in
C9_Witness ==
    /\ pc = "returned"
    /\ round = 2
    /\ s.str = slug
    /\ \E p \in 1..Len(slug) : slug[p] = "-"

====
